---- MODULE Spec2Model ----
(***************************************************************************)
(* Model of guest-test-linux: the per-configuration build pipeline         *)
(* (kernel build, busybox build with .config patch, rootfs assembly and    *)
(* image creation).  Two generations of the pipeline live in the source:   *)
(* the monolithic one of main.rs (build_linux ...) and the modular one of  *)
(* kernel.rs / busybox.rs / rootfs.rs (build_linux_for_config ...).  The   *)
(* variable `variant` says which of the two a behaviour follows.           *)
(*                                                                         *)
(* External commands are inputs: each launch yields "ok" (exit zero),      *)
(* "fail" (exit non-zero) or "noexec" (the command could not be launched). *)
(* A filesystem call yields "ok" or "err".  `.expect(..)` / `.unwrap()` on *)
(* an error is a panic: the process stops at pc = "panicked".              *)
(***************************************************************************)
EXTENDS Integers, Sequences, FiniteSets, TLC

VARIABLES
    variant,               \* "main" (main.rs) or "modules" (kernel.rs, busybox.rs, rootfs.rs)
    host_arch,             \* output of uname -m
    cur,                   \* index of the configuration being processed
    pc,                    \* position of the process
    seed_exists,           \* config/<arch>/<name> exists for the current configuration
    arch,                  \* architecture tag of the current configuration
    kernel_arch,           \* ToolchainProfile.kernel_arch_name, "-" before it is resolved
    cross_compile_prefix,  \* ToolchainProfile.cross_compile_prefix, NoPrefix for None
    log,                   \* what the current configuration's run did so far, in order
    build_tree,            \* paths that exist under build/<configuration>
    mount_point,           \* /tmp/rootfs_mount_<configuration>: "absent", "dir" or "mounted"
    copy_status,           \* `status` of the copy command in create_rootfs_image
    outcome,               \* per configuration: "pending", "running", "success", "failed", "panicked"
    du,                    \* result of `du -sm` seen by calculate_rootfs_size
    dir,                   \* listing of the staging tree seen by the fallback walk
    base_size,             \* calculate_rootfs_size's result
    size_mb,               \* image size computed from base_size
    dd_count,              \* count= passed to dd
    config_content,        \* text of build/<configuration>/busybox/.config
    patch_runs,            \* how many times the .config patch was applied to config_content
    config_name,           \* per assembly: the configuration name it was started with
    mount_path,            \* per assembly: the mount-point path it derived, << >> before
    config_tree,           \* the config directory: one architecture directory holding one file
    listed,                \* the names list_configs printed, in order
    asked,                 \* the configuration name given on the command line
    valid,                 \* what is_valid_config returned for `asked`
    parsed                 \* what parse_config_name returned for `asked`, << >> before

vars == << variant, host_arch, cur, pc, seed_exists, arch, kernel_arch,
           cross_compile_prefix, log, build_tree, mount_point, copy_status, outcome,
           du, dir, base_size, size_mb, dd_count, config_content, patch_runs,
           config_name, mount_path, config_tree, listed, asked, valid, parsed >>

(***************************************************************************)
(* Bounds of the model.                                                    *)
(***************************************************************************)
\* configurations processed by one run of the build subcommand
NumConfigs == 2
\* longest .config text, in tokens, the patch is tried on
MaxTextLen == 3
\* how often the patch is re-applied to the same file
MaxPatchRuns == 2
\* largest size in MB `du -sm` reports in the pipeline specification
MaxDuMB == 1
\* largest size in MB `du -sm` reports in the sizing specification
MaxBase == 700
\* most entries of the staging tree seen by the fallback walk
MaxFiles == 2
\* longest configuration name, in characters
MaxNameLen == 3

(***************************************************************************)
(* Text of a .config file.  A text is a sequence of tokens: a line feed, a *)
(* carriage return, one of the markers the patch knows, or ANY_TEXT, any      *)
(* other piece of text (no marker runs across two tokens).                 *)
(***************************************************************************)
NL == "LF"
CR == "CR"
ANY_TEXT == "x"
STATIC_OFF == "# CONFIG_STATIC is not set"
STATIC_ON == "CONFIG_STATIC=y"
SHARED_ON == "CONFIG_FEATURE_SHARED_BUSYBOX=y"
SHARED_OFF == "# CONFIG_FEATURE_SHARED_BUSYBOX is not set"
TC_ON == "CONFIG_TC=y"
TC_OFF == "# CONFIG_TC is not set"

InputTokens == {NL, CR, ANY_TEXT, STATIC_OFF, STATIC_ON, SHARED_ON, TC_ON}

RECURSIVE TextsOfLen(_)
TextsOfLen(n) ==
    IF n = 0 THEN {<< >>}
    ELSE {Append(t, k) : t \in TextsOfLen(n - 1), k \in InputTokens}

Texts(maxlen) == UNION {TextsOfLen(n) : n \in 0..maxlen}

\* str::strip_suffix('\r') applied to a line that ended in '\n'
StripCR(line) ==
    IF Len(line) > 0 /\ line[Len(line)] = CR
    THEN SubSeq(line, 1, Len(line) - 1)
    ELSE line

\* str::lines(): split after every '\n'; a piece that ends in '\n' loses it and
\* then one '\r'; a last piece without '\n' is kept as it is; no empty last piece.
RECURSIVE LinesFrom(_, _, _)
LinesFrom(text, i, curline) ==
    IF i > Len(text)
    THEN IF curline = << >> THEN << >> ELSE << curline >>
    ELSE IF text[i] = NL
         THEN << StripCR(curline) >> \o LinesFrom(text, i + 1, << >>)
         ELSE LinesFrom(text, i + 1, Append(curline, text[i]))

Lines(text) == LinesFrom(text, 1, << >>)

\* [String]::join("\n")
RECURSIVE Join(_)
Join(ls) ==
    IF ls = << >> THEN << >>
    ELSE IF Len(ls) = 1 THEN ls[1]
    ELSE ls[1] \o << NL >> \o Join(Tail(ls))

\* str::starts_with(marker)
StartsWith(line, marker) == Len(line) > 0 /\ line[1] = marker

\* str::contains(marker)
Contains(text, marker) == \E i \in 1..Len(text) : text[i] = marker

\* the closure without its CONFIG_TC case
PatchLineWithoutTc(line) ==
    IF StartsWith(line, STATIC_OFF) THEN << STATIC_ON >>
    ELSE IF StartsWith(line, SHARED_ON) THEN << SHARED_OFF >>
    ELSE line

\* the closure given to map() in build_busybox_for_config
PatchLine(line) ==
    IF StartsWith(line, STATIC_OFF) THEN << STATIC_ON >>
    ELSE IF StartsWith(line, SHARED_ON) THEN << SHARED_OFF >>
    ELSE IF StartsWith(line, TC_ON) THEN << TC_OFF >>
    ELSE line

\* the closure given to map() in main.rs build_busybox (no CONFIG_TC case)
MainPatchLine(line) ==
    IF StartsWith(line, STATIC_OFF) THEN << STATIC_ON >>
    ELSE IF StartsWith(line, SHARED_ON) THEN << SHARED_OFF >>
    ELSE line

MapLines(ls, v) ==
    [i \in 1..Len(ls) |-> IF v = "main" THEN MainPatchLine(ls[i]) ELSE PatchLine(ls[i])]

\* modified_config
ModifiedConfig(content, v) == Join(MapLines(Lines(content), v))

\* final_config: the text written back to .config
FinalConfig(content, v) ==
    LET modified_config == ModifiedConfig(content, v)
    IN  IF ~Contains(modified_config, STATIC_ON)
        THEN modified_config \o << NL, STATIC_ON, NL >>
        ELSE modified_config

(***************************************************************************)
(* Image sizing.                                                           *)
(***************************************************************************)
MiB == 1024 * 1024
\* the fallback's default, in MB (rootfs.rs)
DefaultSizeMB == 50
\* the margin "30% + 200MB minimum" of create_rootfs_image: 1.3 = 13 / 10
MarginNum == 13
MarginDen == 10
MinMarginMB == 200
\* main.rs: "Add 50MB extra", "Default to 100MB if calculation fails"
MainExtraMB == 50
MainDefaultSizeMB == 100

\* fs::metadata failed for an entry
METADATA_ERR == 0 - 1

FileSizes == {METADATA_ERR, 0, 1, MiB - 1, MiB, 3 * MiB}

RECURSIVE SeqsOfLen(_, _)
SeqsOfLen(S, n) ==
    IF n = 0 THEN {<< >>}
    ELSE {Append(q, x) : q \in SeqsOfLen(S, n - 1), x \in S}

\* bytes of the files that lie below the entries of the staging tree's top
\* level (bin/busybox, lib/modules/...): read_dir does not descend to them
BelowSizes == {0, 3 * MiB}

\* the staging tree: what read_dir and metadata show of its top level (sizes),
\* and what lies below it
DirListings(maxfiles) ==
    {[readable |-> FALSE, sizes |-> << >>, below |-> 0]}
    \cup {[readable |-> TRUE, sizes |-> q, below |-> b] :
            q \in UNION {SeqsOfLen(FileSizes, n) : n \in 0..maxfiles},
            b \in BelowSizes}

\* what `du -sm` yields: not launched, exit non-zero, exit zero with a first
\* word that does not parse as u64, exit zero with a size
DuResults(maxmb) ==
    {[launched |-> FALSE, success |-> FALSE, parsed |-> FALSE, size |-> 0],
     [launched |-> TRUE, success |-> FALSE, parsed |-> FALSE, size |-> 0],
     [launched |-> TRUE, success |-> TRUE, parsed |-> FALSE, size |-> 0]}
    \cup {[launched |-> TRUE, success |-> TRUE, parsed |-> TRUE, size |-> n] :
            n \in 0..maxmb}

\* total_bytes of the fallback walk (saturating_add never saturates within the bounds)
RECURSIVE SumSizes(_)
SumSizes(q) ==
    IF q = << >> THEN 0
    ELSE (IF q[1] = METADATA_ERR THEN 0 ELSE q[1]) + SumSizes(Tail(q))

TotalBytes(d) == IF d.readable THEN SumSizes(d.sizes) ELSE 0

\* lines 41-61 of calculate_rootfs_size: the walk and the conversion to MB
FallbackSizeMB(d) ==
    LET total_bytes == TotalBytes(d)
        mb == IF total_bytes > 0 THEN total_bytes \div MiB ELSE DefaultSizeMB
    IN  IF mb = 0 THEN DefaultSizeMB ELSE mb

\* rootfs.rs calculate_rootfs_size
calculate_rootfs_size(u, d) ==
    IF u.launched /\ u.success /\ u.parsed THEN u.size ELSE FallbackSizeMB(d)

\* main.rs calculate_rootfs_size, for a du that was launched
main_calculate_rootfs_size(u) ==
    IF u.success /\ u.parsed THEN u.size ELSE MainDefaultSizeMB

\* the scaling without .ceil(): `as u64` alone truncates
ScaledSizeTruncated(base) == (base * MarginNum) \div MarginDen

\* (base_size as f64 * 1.3).ceil() as u64: below 2^52 the f64 product of an
\* integer and 1.3 rounds to the exact product when that is an integer and stays
\* off the integers otherwise, so the result is the integer ceiling.
ScaledSize(base) == (base * MarginNum + MarginDen - 1) \div MarginDen

\* rootfs.rs create_rootfs_image: size_mb
ImageSizeMB(base) ==
    IF ScaledSize(base) < base + MinMarginMB
    THEN base + MinMarginMB
    ELSE ScaledSize(base)

\* main.rs create_rootfs: size_mb
MainImageSizeMB(base) == base + MainExtraMB

(***************************************************************************)
(* Toolchain resolution.                                                   *)
(***************************************************************************)
NoPrefix == "none"
Archs == {"arm64", "x86", "riscv"}
\* strings uname -m may print; "x86_64h" stands for any string that starts with
\* "x86_64" and is longer, "aarch64_be" for one that only starts with "aarch64"
Hosts == {"x86_64", "x86_64h", "i686", "aarch64", "aarch64_be", "riscv64"}
PipelineHosts == {"x86_64", "aarch64"}

\* host_arch.starts_with("x86_64")
StartsWithX86_64(h) == h \in {"x86_64", "x86_64h"}

\* the match arms of get_arch_config that run `which <cross-gcc>`
ProbeMade(target_arch, host) ==
    \/ target_arch = "arm64" /\ host # "aarch64"
    \/ target_arch = "x86" /\ ~(StartsWithX86_64(host) \/ host = "i686")

\* get_arch_config with the x86 arm's fallback copied into the arm64 arm
get_arch_config_arm64_falls_back(target_arch, host, probe_ok) ==
    [kernel_arch |->
        IF target_arch = "x86" THEN "x86_64"
        ELSE IF target_arch = "arm64" THEN "arm64"
        ELSE target_arch,
     cross_compile_prefix |->
        IF target_arch = "x86" /\ (StartsWithX86_64(host) \/ host = "i686") THEN NoPrefix
        ELSE IF target_arch = "arm64" /\ host = "aarch64" THEN NoPrefix
        ELSE IF target_arch = "arm64"
             THEN (IF probe_ok THEN "aarch64-linux-gnu-" ELSE NoPrefix)
        ELSE IF target_arch = "x86"
             THEN (IF probe_ok THEN "x86_64-linux-gnu-" ELSE NoPrefix)
        ELSE NoPrefix]

\* get_arch_config with the arm64 arm's behaviour copied into the x86 arm
get_arch_config_x86_keeps_prefix(target_arch, host, probe_ok) ==
    [kernel_arch |->
        IF target_arch = "x86" THEN "x86_64"
        ELSE IF target_arch = "arm64" THEN "arm64"
        ELSE target_arch,
     cross_compile_prefix |->
        IF target_arch = "x86" /\ (StartsWithX86_64(host) \/ host = "i686") THEN NoPrefix
        ELSE IF target_arch = "arm64" /\ host = "aarch64" THEN NoPrefix
        ELSE IF target_arch = "arm64" THEN "aarch64-linux-gnu-"
        ELSE IF target_arch = "x86" THEN "x86_64-linux-gnu-"
        ELSE NoPrefix]

\* get_arch_config: probe_ok is whether `which <cross-gcc>` was launched and exited zero
get_arch_config(target_arch, host, probe_ok) ==
    [kernel_arch |->
        IF target_arch = "x86" THEN "x86_64"
        ELSE IF target_arch = "arm64" THEN "arm64"
        ELSE target_arch,
     cross_compile_prefix |->
        IF target_arch = "x86" /\ (StartsWithX86_64(host) \/ host = "i686") THEN NoPrefix
        ELSE IF target_arch = "arm64" /\ host = "aarch64" THEN NoPrefix
        ELSE IF target_arch = "arm64" THEN "aarch64-linux-gnu-"
        ELSE IF target_arch = "x86"
             THEN (IF probe_ok THEN "x86_64-linux-gnu-" ELSE NoPrefix)
        ELSE NoPrefix]

\* kernel_target of build_linux_for_config / build_linux
kernel_target(a) ==
    IF a = "arm64" THEN "Image" ELSE IF a = "x86" THEN "bzImage" ELSE "bzImage"

(***************************************************************************)
(* Configuration names and the mount-point path.  A name is a sequence of  *)
(* characters; a path is a sequence of the literal pieces the code joins,  *)
(* followed by the characters of the name.                                 *)
(***************************************************************************)
NameChars == {"a", "-", "_"}
Names == UNION { [1..n -> NameChars] : n \in 0..MaxNameLen }

\* two invocations of the build subcommand running side by side
Assemblies == {"first", "second"}
NoNames == [a \in Assemblies |-> << >>]
NoPaths == [a \in Assemblies |-> << >>]

\* parts[0] of name.split('-')
FirstPart(name) ==
    LET hyphens == {i \in 1..Len(name) : name[i] = "-"}
    IN  IF hyphens = {} THEN name
        ELSE SubSeq(name, 1, (CHOOSE i \in hyphens : \A j \in hyphens : i <= j) - 1)

\* a mount point named after the architecture part of the name only
mount_point_from_arch(name) == << "/tmp", "/", "rootfs_mount_" >> \o FirstPart(name)

\* PathBuf::from("/tmp").join(format!("rootfs_mount_{}", config_name))
mount_point_path(name) == << "/tmp", "/", "rootfs_mount_" >> \o name

(***************************************************************************)
(* The config directory and the names of its configurations               *)
(* (config.rs).  A path is the sequence of its components.                 *)
(***************************************************************************)
\* names of directories and files: not empty, and short enough for the
\* name assembled from two of them to stay small
EntryNames == {n \in Names : 0 < Len(n) /\ Len(n) < MaxNameLen}

ConfigDir == << "config" >>
NoTree == [arch_dir |-> << >>, file |-> << >>]

\* the directories and the regular files of a config directory
Dirs(tree) == {<< ConfigDir >>, << ConfigDir, tree.arch_dir >>}
Files(tree) == {<< ConfigDir, tree.arch_dir, tree.file >>}

\* Path::exists: true of a directory as well as of a file
Exists(path, tree) == path \in Dirs(tree) \cup Files(tree)

\* name.split('-'): always at least one part, parts may be empty
RECURSIVE Split(_)
Split(name) ==
    LET hyphens == {i \in 1..Len(name) : name[i] = "-"}
    IN  IF hyphens = {} THEN << name >>
        ELSE LET h == CHOOSE i \in hyphens : \A j \in hyphens : i <= j
             IN  << SubSeq(name, 1, h - 1) >> \o Split(SubSeq(name, h + 1, Len(name)))

\* parts.join("-")
RECURSIVE JoinHyphen(_)
JoinHyphen(parts) ==
    IF parts = << >> THEN << >>
    ELSE IF Len(parts) = 1 THEN parts[1]
    ELSE parts[1] \o << "-" >> \o JoinHyphen(Tail(parts))

\* PathBuf::from("config").join(arch).join(name): joining an empty string adds
\* no component
config_path(a, n) ==
    << ConfigDir >> \o (IF a = << >> THEN << >> ELSE << a >>)
                    \o (IF n = << >> THEN << >> ELSE << n >>)

\* config.rs 45: format!("{}-{}", arch_name, config_name)
full_config_name(a, n) == a \o << "-" >> \o n

\* config.rs 65-70
parse_config_name(name) ==
    LET parts == Split(name)
    IN  << parts[1], JoinHyphen(Tail(parts)) >>

\* config.rs 5-16
is_valid_config(name, tree) ==
    LET parts == Split(name)
    IN  IF Len(parts) < 2 THEN FALSE
        ELSE Exists(config_path(parts[1], JoinHyphen(Tail(parts))), tree)

\* byte order of the characters of a name, as str's Ord compares them
ByteOf == [c \in NameChars |-> IF c = "-" THEN 45 ELSE IF c = "_" THEN 95 ELSE 97]

RECURSIVE NameLess(_, _)
NameLess(s, t) ==
    IF t = << >> THEN FALSE
    ELSE IF s = << >> THEN TRUE
    ELSE IF s[1] # t[1] THEN ByteOf[s[1]] < ByteOf[t[1]]
    ELSE NameLess(Tail(s), Tail(t))

\* config.rs 53: configs.sort()
SortNames(S) ==
    CHOOSE seq \in [1..Cardinality(S) -> S] :
        \A i, j \in 1..Cardinality(S) : i < j => NameLess(seq[i], seq[j])

\* config.rs 28-53: the names list_configs collects, one per regular file of
\* each architecture directory, sorted
list_configs(tree) ==
    SortNames({full_config_name(tree.arch_dir, f[3]) : f \in Files(tree)})

\* no config directory looked at, nothing asked
NoLookup ==
    /\ config_tree = NoTree
    /\ listed = << >>
    /\ asked = << >>
    /\ valid = FALSE
    /\ parsed = << >>

(***************************************************************************)
(* The pipeline.                                                           *)
(***************************************************************************)
Variants == {"main", "modules"}
CmdResults == {"ok", "fail", "noexec"}
FsResults == {"ok", "err"}

\* .config texts `make defconfig` generates in the pipeline specification
DefconfigOutputs ==
    { << STATIC_OFF, NL, SHARED_ON, NL >>, << ANY_TEXT, NL, TC_ON, NL >> }

\* build/<configuration> left by an earlier run, or nothing
StaleTree == {"linux", "busybox", "rootfs", "rootfs/stale"}
InitialTrees == { {}, StaleTree }

StagingPaths ==
    {"rootfs/stale", "rootfs/bin", "rootfs/dirs", "rootfs/lib/modules",
     "rootfs/init", "rootfs/boot"}

\* an entry of log: a step, how it ended, and for a make invocation its ARCH= and
\* CROSS_COMPILE= arguments ("-" where the step passes none)
Ev(step, res) == [step |-> step, res |-> res, arch |-> "-", cross |-> "-"]
\* a make install that is not handed the prefix
MakeEvInstallWithoutPrefix(step, res, karch, cross) ==
    [step |-> step, res |-> res, arch |-> karch,
     cross |-> IF step = "busybox_install" THEN NoPrefix ELSE cross]

MakeEv(step, res, karch, cross) ==
    [step |-> step, res |-> res, arch |-> karch, cross |-> cross]

Steps(l) == {l[i].step : i \in 1..Len(l)}
Count(l, step) == Cardinality({i \in 1..Len(l) : l[i].step = step})
Result(l, step) == {l[i].res : i \in {j \in 1..Len(l) : l[j].step = step}}

\* steps of the rootfs assembly (create_rootfs_for_config, create_rootfs_image)
RootfsSteps ==
    {"staging_clean", "busybox_install", "scaffold", "modules_install",
     "init_script", "boot_copy", "image_size", "dd", "mkfs", "mount", "copy",
     "chown", "umount", "remove_mount_point", "report_success", "report_copy_failed"}

\* steps of build_busybox_for_config
BusyboxSteps == {"busybox_defconfig", "busybox_patch", "busybox_make"}

lookupVars == << config_tree, listed, asked, valid, parsed >>
nameVars == << config_name, mount_path, lookupVars >>
configVars == << variant, host_arch, cur, seed_exists, arch, nameVars >>
toolVars == << kernel_arch, cross_compile_prefix >>
sizeVars == << du, dir, base_size, size_mb, dd_count >>
patchVars == << config_content, patch_runs >>

\* how a step that ended with r marks the configuration
Mark(r) ==
    IF r = "ok" THEN outcome[cur]
    ELSE IF r = "fail" THEN "failed"
    ELSE "panicked"

\* the same with the early return after a non-zero exit left out
FatalNextContinues(r, next) == IF r = "noexec" THEN "panicked" ELSE next

\* a command whose launch is .expect()ed and whose non-zero exit returns
FatalNext(r, next) ==
    IF r = "ok" THEN next ELSE IF r = "fail" THEN "return" ELSE "panicked"

\* a command whose launch is .expect()ed and whose non-zero exit is only reported
WarnNext(r, next) == IF r = "noexec" THEN "panicked" ELSE next
WarnMark(r) == IF r = "noexec" THEN "panicked" ELSE outcome[cur]

\* main.rs 58-66: the loop over the entries of config/
MainLoop ==
    /\ pc = "main_loop"
    /\ IF cur < NumConfigs
       THEN /\ cur' = cur + 1
            /\ pc' = "build_linux"
            /\ \E a \in Archs : arch' = a
            /\ \E e \in BOOLEAN : seed_exists' = e
            /\ \E t \in InitialTrees : build_tree' = t
            /\ outcome' = [outcome EXCEPT ![cur + 1] = "running"]
            /\ log' = << >>
            /\ kernel_arch' = "-"
            /\ cross_compile_prefix' = "-"
            /\ mount_point' = "absent"
            /\ copy_status' = "-"
            /\ du' = [launched |-> FALSE, success |-> FALSE, parsed |-> FALSE, size |-> 0]
            /\ dir' = [readable |-> FALSE, sizes |-> << >>, below |-> 0]
            /\ base_size' = 0
            /\ size_mb' = 0
            /\ dd_count' = 0
            /\ config_content' = << >>
            /\ patch_runs' = 0
            /\ UNCHANGED << variant, host_arch, nameVars >>
       ELSE /\ pc' = "exit"
            /\ UNCHANGED << configVars, toolVars, sizeVars, patchVars, log,
                            build_tree, mount_point, copy_status, outcome >>

\* build_linux_for_config without the early return for a missing seed config
SeedCheckNextNoCheck(exists, r) ==
    IF r = "ok" THEN "resolve_toolchain" ELSE "panicked"

\* where build_linux_for_config goes after the check of the seed config
SeedCheckNext(exists, r) ==
    IF ~exists THEN "return" ELSE IF r = "ok" THEN "resolve_toolchain" ELSE "panicked"

\* kernel.rs 9-22 (main.rs 80-92): seed config check, create_dir_all, copy
BuildLinuxStart ==
    /\ pc = "build_linux"
    /\ \E r \in {"ok", "mkdir_err", "copy_err"} :
        LET next == SeedCheckNext(seed_exists, r)
        IN  /\ pc' = next
            /\ log' = IF next = "return"
                      THEN Append(log, Ev("config_not_found", "-"))
                      ELSE Append(log, Ev("copy_seed_config", r))
            /\ build_tree' = IF next = "return" THEN build_tree
                             ELSE IF r = "mkdir_err" THEN build_tree
                             ELSE IF r = "copy_err" THEN build_tree \cup {"linux"}
                             ELSE build_tree \cup {"linux", "linux/.config"}
            /\ outcome' = [outcome EXCEPT ![cur] =
                              IF next = "return" THEN "failed"
                              ELSE IF next = "panicked" THEN "panicked" ELSE @]
    /\ UNCHANGED << configVars, toolVars, sizeVars, patchVars, mount_point, copy_status >>

\* kernel.rs 24-34 (main.rs 94-104): get_host_arch, get_arch_config
ResolveToolchain ==
    /\ pc = "resolve_toolchain"
    /\ \E uname \in {"ok", "noexec"}, probe_ok \in BOOLEAN :
        LET cfg == get_arch_config(arch, host_arch, probe_ok)
        IN  /\ pc' = IF uname = "ok" THEN "kernel_make" ELSE "panicked"
            /\ log' = IF uname = "ok" /\ ProbeMade(arch, host_arch)
                      THEN log \o << Ev("uname", uname),
                                     Ev("which_cross_gcc",
                                        IF probe_ok THEN "found" ELSE "not_found") >>
                      ELSE Append(log, Ev("uname", uname))
            /\ kernel_arch' = IF uname = "ok" THEN cfg.kernel_arch ELSE kernel_arch
            /\ cross_compile_prefix' =
                    IF uname = "ok" THEN cfg.cross_compile_prefix ELSE cross_compile_prefix
            /\ outcome' = [outcome EXCEPT ![cur] = IF uname = "ok" THEN @ ELSE "panicked"]
    /\ UNCHANGED << configVars, sizeVars, patchVars, build_tree, mount_point, copy_status >>

\* build_linux_for_config without the early return after a failed make
KernelMakeNextIgnoresFailure(r, v) ==
    IF r = "noexec" THEN "panicked"
    ELSE IF v = "modules" THEN "copy_kernel_image" ELSE "download_busybox"

\* where build_linux_for_config goes after make: kernel.rs 60-65 and 73-77
KernelMakeNext(r, v) ==
    FatalNext(r, IF v = "modules" THEN "copy_kernel_image" ELSE "download_busybox")

\* kernel.rs 36-71 (main.rs 106-141): the kernel make invocation
KernelMake ==
    /\ pc = "kernel_make"
    /\ \E r \in CmdResults, produced \in BOOLEAN :
        /\ pc' = KernelMakeNext(r, variant)
        /\ log' = Append(log, MakeEv("kernel_make", r, kernel_arch, cross_compile_prefix))
        /\ build_tree' = IF r = "ok" /\ produced
                         THEN build_tree \cup {"linux/arch/boot/image"}
                         ELSE build_tree
        /\ outcome' = [outcome EXCEPT ![cur] = Mark(r)]
    /\ UNCHANGED << configVars, toolVars, sizeVars, patchVars, mount_point, copy_status >>

\* build_linux_for_config giving up when copy_kernel_image finds no image
CopyKernelNextStopsWithoutImage(res) ==
    IF res = "mkdir_err" THEN "panicked"
    ELSE IF res = "not_found" THEN "return"
    ELSE "download_busybox"

\* kernel.rs 74-77: copy_kernel_image returns nothing, build_busybox_and_rootfs_for_config
\* is called after it; only the .expect() of create_dir_all (kernel.rs 87) leaves
CopyKernelNext(res) == IF res = "mkdir_err" THEN "panicked" ELSE "download_busybox"

\* kernel.rs 81-134: copy_kernel_image
CopyKernelImage ==
    /\ pc = "copy_kernel_image"
    /\ \E mk \in FsResults, cp \in FsResults :
        LET res == IF mk = "err" THEN "mkdir_err"
                   ELSE IF arch \notin {"arm64", "x86"} THEN "unsupported"
                   ELSE IF "linux/arch/boot/image" \notin build_tree THEN "not_found"
                   ELSE IF cp = "err" THEN "copy_err"
                   ELSE "copied"
        IN  /\ pc' = CopyKernelNext(res)
            /\ log' = Append(log, Ev("copy_kernel_image", res))
            /\ build_tree' = IF res = "copied"
                             THEN build_tree \cup {kernel_target(arch)}
                             ELSE build_tree
            /\ outcome' = [outcome EXCEPT ![cur] =
                              IF res = "mkdir_err" THEN "panicked" ELSE @]
    /\ UNCHANGED << configVars, toolVars, sizeVars, patchVars, mount_point, copy_status >>

\* busybox.rs 8-34 (main.rs 229-255): download_busybox; a failed clone only returns
DownloadBusybox ==
    /\ pc = "download_busybox"
    /\ \E r \in {"exists", "ok", "fail", "noexec"} :
        /\ pc' = WarnNext(r, "busybox_configure")
        /\ log' = Append(log, Ev(IF r = "exists" THEN "busybox_present"
                                 ELSE "git_clone_busybox",
                                 IF r = "noexec" THEN r ELSE "done"))
        /\ outcome' = [outcome EXCEPT ![cur] = WarnMark(r)]
    /\ UNCHANGED << configVars, toolVars, sizeVars, patchVars, build_tree,
                    mount_point, copy_status >>

\* build_busybox_for_config without its early returns
BusyboxNextContinues(r, next) == IF r = "noexec" THEN "panicked" ELSE next

\* where control goes after a make invocation of build_busybox_for_config:
\* a non-zero exit returns from build_busybox_for_config (busybox.rs 80-83,
\* 135-138), whose caller then calls create_rootfs_for_config (busybox.rs 47-50)
BusyboxNext(r, next) ==
    IF r = "ok" THEN next ELSE IF r = "fail" THEN "create_rootfs" ELSE "panicked"

\* busybox.rs 54-83 (main.rs 257-286): create_dir_all and make defconfig
BusyboxConfigure ==
    /\ pc = "busybox_configure"
    /\ \E mk \in FsResults, r \in CmdResults, generated \in DefconfigOutputs :
        IF mk = "err"
        THEN /\ pc' = "panicked"
             /\ log' = Append(log, Ev("busybox_mkdir", "err"))
             /\ outcome' = [outcome EXCEPT ![cur] = "panicked"]
             /\ UNCHANGED << build_tree, patchVars >>
        ELSE /\ pc' = BusyboxNext(r, "busybox_patch")
             /\ log' = Append(log,
                    MakeEv("busybox_defconfig", r, "-", cross_compile_prefix))
             /\ outcome' = [outcome EXCEPT ![cur] = Mark(r)]
             /\ build_tree' = IF r = "ok"
                              THEN build_tree \cup {"busybox", "busybox/.config"}
                              ELSE build_tree \cup {"busybox"}
             /\ config_content' = IF r = "ok" THEN generated ELSE config_content
             /\ patch_runs' = 0
    /\ UNCHANGED << configVars, toolVars, sizeVars, mount_point, copy_status >>

\* busybox.rs 85-116 (main.rs 288-317): read .config, patch it, write it back
BusyboxPatch ==
    /\ pc = "busybox_patch"
    /\ \E r \in {"ok", "read_err", "write_err"} :
        /\ pc' = IF r = "ok" THEN "busybox_make" ELSE "panicked"
        /\ log' = Append(log, Ev("busybox_patch", r))
        /\ outcome' = [outcome EXCEPT ![cur] = IF r = "ok" THEN @ ELSE "panicked"]
        /\ config_content' = IF r = "ok" THEN FinalConfig(config_content, variant)
                             ELSE config_content
        /\ patch_runs' = IF r = "ok" THEN patch_runs + 1 ELSE patch_runs
    /\ UNCHANGED << configVars, toolVars, sizeVars, build_tree, mount_point, copy_status >>

\* busybox.rs 118-141 (main.rs 319-342): the compile
BusyboxCompile ==
    /\ pc = "busybox_make"
    /\ \E r \in CmdResults :
        /\ pc' = BusyboxNext(r, "create_rootfs")
        /\ log' = Append(log, MakeEv("busybox_make", r, "-", cross_compile_prefix))
        /\ outcome' = [outcome EXCEPT ![cur] = Mark(r)]
        /\ build_tree' = IF r = "ok" THEN build_tree \cup {"busybox/busybox"}
                         ELSE build_tree
    /\ UNCHANGED << configVars, toolVars, sizeVars, patchVars, mount_point, copy_status >>

\* create_rootfs_for_config without the remove_dir_all of an existing staging tree
CleanedTreeKeepsContents(tree) == tree \cup {"rootfs"}

\* rootfs.rs 78-82 (main.rs 352-356): remove_dir_all of an existing staging tree,
\* then create_dir_all
CleanedTree(tree) == (tree \ StagingPaths) \cup {"rootfs"}

\* rootfs.rs 73-82 (main.rs 347-356): delete the staging tree, create it again
StagingClean ==
    /\ pc = "create_rootfs"
    /\ \E r \in FsResults :
        /\ pc' = IF r = "ok" THEN "busybox_install" ELSE "panicked"
        /\ log' = Append(log, Ev("staging_clean", r))
        /\ outcome' = [outcome EXCEPT ![cur] = IF r = "ok" THEN @ ELSE "panicked"]
        /\ build_tree' = IF r = "ok"
                         THEN CleanedTree(build_tree)
                         ELSE build_tree
    /\ UNCHANGED << configVars, toolVars, sizeVars, patchVars, mount_point, copy_status >>

\* create_rootfs_for_config going on to the scaffold after a failed install
InstallNextIgnoresFailure(r) == IF r = "noexec" THEN "panicked" ELSE "scaffold"

\* rootfs.rs 105-111 (main.rs 376-382): an install that exits non-zero returns
InstallNext(r) == FatalNext(r, "scaffold")

\* rootfs.rs 84-111 (main.rs 358-382): make install into the staging tree
BusyboxInstall ==
    /\ pc = "busybox_install"
    /\ \E r \in CmdResults :
        /\ pc' = InstallNext(r)
        /\ log' = Append(log, MakeEv("busybox_install", r, "-", cross_compile_prefix))
        /\ outcome' = [outcome EXCEPT ![cur] = Mark(r)]
        /\ build_tree' = IF r = "ok" THEN build_tree \cup {"rootfs/bin"} ELSE build_tree
    /\ UNCHANGED << configVars, toolVars, sizeVars, patchVars, mount_point, copy_status >>

\* rootfs.rs 113-134 (main.rs 384-405): ls, the scaffold directories, find
Scaffold ==
    /\ pc = "scaffold"
    /\ \E r \in FsResults :
        /\ pc' = IF r = "ok" THEN "modules_install" ELSE "panicked"
        /\ log' = Append(log, Ev("scaffold", r))
        /\ outcome' = [outcome EXCEPT ![cur] = IF r = "ok" THEN @ ELSE "panicked"]
        /\ build_tree' = IF r = "ok" THEN build_tree \cup {"rootfs/dirs"} ELSE build_tree
    /\ UNCHANGED << configVars, toolVars, sizeVars, patchVars, mount_point, copy_status >>

\* rootfs.rs 136-167 (main.rs 407-435): lib/modules and make modules_install
ModulesInstall ==
    /\ pc = "modules_install"
    /\ \E mk \in FsResults, r \in CmdResults :
        IF mk = "err"
        THEN /\ pc' = "panicked"
             /\ log' = Append(log, Ev("modules_mkdir", "err"))
             /\ outcome' = [outcome EXCEPT ![cur] = "panicked"]
             /\ UNCHANGED build_tree
        ELSE /\ pc' = WarnNext(r, "init_script")
             /\ log' = Append(log,
                    MakeEv("modules_install", r, kernel_arch, cross_compile_prefix))
             /\ outcome' = [outcome EXCEPT ![cur] = WarnMark(r)]
             /\ build_tree' = build_tree \cup {"rootfs/lib/modules"}
    /\ UNCHANGED << configVars, toolVars, sizeVars, patchVars, mount_point, copy_status >>

\* rootfs.rs 6-21 (main.rs 550-581): create_init_script
CreateInitScript ==
    /\ pc = "init_script"
    /\ \E w \in FsResults, r \in CmdResults :
        LET res == IF w = "err" THEN "write_err"
                   ELSE IF r = "noexec" THEN "noexec" ELSE "done"
        IN  /\ pc' = IF res # "done" THEN "panicked"
                     ELSE IF variant = "modules" THEN "boot_copy" ELSE "image_size"
            /\ log' = Append(log, Ev("init_script", res))
            /\ outcome' = [outcome EXCEPT ![cur] = IF res = "done" THEN @ ELSE "panicked"]
            /\ build_tree' = IF w = "ok" THEN build_tree \cup {"rootfs/init"}
                             ELSE build_tree
    /\ UNCHANGED << configVars, toolVars, sizeVars, patchVars, mount_point, copy_status >>

\* rootfs.rs 172-217: copy a kernel image found in the build tree to rootfs/boot
BootCopy ==
    /\ pc = "boot_copy"
    /\ \E r \in FsResults :
        LET found == "linux/arch/boot/image" \in build_tree
        IN  /\ pc' = "image_size"
            /\ log' = Append(log, Ev("boot_copy", "done"))
            /\ build_tree' = IF found /\ r = "ok" THEN build_tree \cup {"rootfs/boot"}
                             ELSE build_tree
    /\ UNCHANGED << configVars, toolVars, sizeVars, patchVars, mount_point,
                    copy_status, outcome >>

NoListing == [readable |-> FALSE, sizes |-> << >>, below |-> 0]
NoDu == [launched |-> FALSE, success |-> FALSE, parsed |-> FALSE, size |-> 0]

\* whether calculate_rootfs_size walks the staging tree
UsesFallback(v, u) == v = "modules" /\ ~(u.launched /\ u.success /\ u.parsed)

\* base_size: calculate_rootfs_size of the variant
BaseSize(v, u, d) ==
    IF v = "modules" THEN calculate_rootfs_size(u, d) ELSE main_calculate_rootfs_size(u)

\* size_mb of the variant: rootfs.rs 229-234, main.rs 445
SizeMB(v, base) == IF v = "modules" THEN ImageSizeMB(base) ELSE MainImageSizeMB(base)

\* rootfs.rs 224-234 (main.rs 440-445): calculate_rootfs_size and the margin;
\* main.rs .expect()s the launch of du
ImageSize(DuSet, DirSet) ==
    /\ pc = "image_size"
    /\ \E u \in DuSet, d \in DirSet :
        LET panics == variant = "main" /\ ~u.launched
            base == BaseSize(variant, u, d)
        IN  /\ pc' = IF panics THEN "panicked" ELSE "dd"
            /\ log' = Append(log, Ev("image_size", IF panics THEN "noexec" ELSE "done"))
            /\ outcome' = [outcome EXCEPT ![cur] = IF panics THEN "panicked" ELSE @]
            /\ du' = u
            /\ dir' = IF UsesFallback(variant, u) THEN d ELSE NoListing
            /\ base_size' = IF panics THEN base_size ELSE base
            /\ size_mb' = IF panics THEN size_mb ELSE SizeMB(variant, base)
    /\ UNCHANGED << configVars, toolVars, patchVars, build_tree, mount_point,
                    copy_status, dd_count >>

\* rootfs.rs 236-253 (main.rs 447-461): dd if=/dev/zero of=rootfs.img bs=1M count=size_mb
AllocateImage ==
    /\ pc = "dd"
    /\ \E r \in CmdResults :
        /\ pc' = FatalNext(r, "mkfs")
        /\ log' = Append(log, Ev("dd", r))
        /\ outcome' = [outcome EXCEPT ![cur] = Mark(r)]
        /\ dd_count' = size_mb
        /\ build_tree' = IF r = "ok" THEN build_tree \cup {"rootfs.img"} ELSE build_tree
    /\ UNCHANGED << configVars, toolVars, patchVars, mount_point, copy_status,
                    du, dir, base_size, size_mb >>

\* rootfs.rs 255-267 (main.rs 463-472): mkfs.ext4
FormatImage ==
    /\ pc = "mkfs"
    /\ \E r \in CmdResults :
        /\ pc' = FatalNext(r, "mount")
        /\ log' = Append(log, Ev("mkfs", r))
        /\ outcome' = [outcome EXCEPT ![cur] = Mark(r)]
    /\ UNCHANGED << configVars, toolVars, sizeVars, patchVars, build_tree,
                    mount_point, copy_status >>

\* create_rootfs_image going on to the copy after a failed mount
MountNextIgnoresFailure(r) == IF r = "noexec" THEN "panicked" ELSE "copy"

\* rootfs.rs 280-290 (main.rs 485-492): a mount that exits non-zero returns
MountNext(r) == FatalNext(r, "copy")

\* rootfs.rs 269-290 (main.rs 474-492): create the mount point, sudo mount -o loop
MountImage ==
    /\ pc = "mount"
    /\ \E mk \in FsResults, r \in CmdResults :
        IF mk = "err"
        THEN /\ pc' = "panicked"
             /\ log' = Append(log, Ev("mount_mkdir", "err"))
             /\ outcome' = [outcome EXCEPT ![cur] = "panicked"]
             /\ UNCHANGED mount_point
        ELSE /\ pc' = MountNext(r)
             /\ log' = Append(log, Ev("mount", r))
             /\ outcome' = [outcome EXCEPT ![cur] = Mark(r)]
             /\ mount_point' = IF r = "ok" THEN "mounted" ELSE "dir"
    /\ UNCHANGED << configVars, toolVars, sizeVars, patchVars, build_tree, copy_status >>

\* a copy whose result is not looked at before the ownership fix
CopyNextAlwaysChown(status) == "chown"

\* rootfs.rs 312-313: the ownership fix is run when the copy was launched and exited zero
CopyNext(status) == IF status = "ok" THEN "chown" ELSE "umount"

\* rootfs.rs 292-310 (main.rs 494-512): the copy; its Result is kept in `status`
CopyRootfs ==
    /\ pc = "copy"
    /\ \E r \in CmdResults :
        /\ pc' = CopyNext(r)
        /\ log' = Append(log, Ev("copy", r))
        /\ copy_status' = r
    /\ UNCHANGED << configVars, toolVars, sizeVars, patchVars, build_tree,
                    mount_point, outcome >>

\* where create_rootfs_image goes after chown: its launch is .expect()ed (rootfs.rs
\* 315-318), its exit status only reported (320-327)
ChownNext(r) == WarnNext(r, "umount")

\* rootfs.rs 312-328 (main.rs 514-530): sudo chown -R root:root
ChownRootfs ==
    /\ pc = "chown"
    /\ \E r \in CmdResults :
        /\ pc' = ChownNext(r)
        /\ log' = Append(log, Ev("chown", r))
        /\ outcome' = [outcome EXCEPT ![cur] =
                          IF ChownNext(r) = "panicked" THEN "panicked" ELSE @]
    /\ UNCHANGED << configVars, toolVars, sizeVars, patchVars, build_tree,
                    mount_point, copy_status >>

\* rootfs.rs 330-333 (main.rs 532-535): sudo umount, its result dropped
Unmount ==
    /\ pc = "umount"
    /\ \E r \in CmdResults :
        /\ pc' = "remove_mount_point"
        /\ log' = Append(log, Ev("umount", r))
        /\ mount_point' = IF r = "ok" THEN "dir" ELSE mount_point
    /\ UNCHANGED << configVars, toolVars, sizeVars, patchVars, build_tree,
                    copy_status, outcome >>

\* rootfs.rs 338: what the last branch of create_rootfs_image reports
Report(status) == IF status = "ok" THEN "report_success" ELSE "report_copy_failed"

\* rootfs.rs 335-348 (main.rs 537-547): remove the mount point, report
CleanupAndReport ==
    /\ pc = "remove_mount_point"
    /\ \E r \in FsResults :
        /\ pc' = "return"
        /\ log' = log \o << Ev("remove_mount_point", r), Ev(Report(copy_status), "-") >>
        /\ mount_point' = IF r = "ok" /\ mount_point = "dir" THEN "absent" ELSE mount_point
        /\ outcome' = [outcome EXCEPT ![cur] =
                          IF Report(copy_status) = "report_success" THEN "success"
                          ELSE "failed"]
    /\ UNCHANGED << configVars, toolVars, sizeVars, patchVars, build_tree, copy_status >>

\* the pipeline function returns to the loop of main
Return ==
    /\ pc = "return"
    /\ pc' = "main_loop"
    /\ UNCHANGED << configVars, toolVars, sizeVars, patchVars, log, build_tree,
                    mount_point, copy_status, outcome >>

Init ==
    /\ variant \in Variants
    /\ host_arch \in PipelineHosts
    /\ cur = 0
    /\ pc = "main_loop"
    /\ seed_exists = FALSE
    /\ arch = "-"
    /\ kernel_arch = "-"
    /\ cross_compile_prefix = "-"
    /\ log = << >>
    /\ build_tree = {}
    /\ mount_point = "absent"
    /\ copy_status = "-"
    /\ outcome = [c \in 1..NumConfigs |-> "pending"]
    /\ du = NoDu
    /\ dir = NoListing
    /\ base_size = 0
    /\ size_mb = 0
    /\ dd_count = 0
    /\ config_content = << >>
    /\ patch_runs = 0
    /\ config_name = NoNames
    /\ mount_path = NoPaths
    /\ NoLookup

Next ==
    \/ MainLoop
    \/ BuildLinuxStart
    \/ ResolveToolchain
    \/ KernelMake
    \/ CopyKernelImage
    \/ DownloadBusybox
    \/ BusyboxConfigure
    \/ BusyboxPatch
    \/ BusyboxCompile
    \/ StagingClean
    \/ BusyboxInstall
    \/ Scaffold
    \/ ModulesInstall
    \/ CreateInitScript
    \/ BootCopy
    \/ ImageSize(DuResults(MaxDuMB), {NoListing})
    \/ AllocateImage
    \/ FormatImage
    \/ MountImage
    \/ CopyRootfs
    \/ ChownRootfs
    \/ Unmount
    \/ CleanupAndReport
    \/ Return

Spec == Init /\ [][Next]_vars

(***************************************************************************)
(* The .config patch on its own: every text up to MaxTextLen tokens, the   *)
(* patch applied to the same file up to MaxPatchRuns times.                *)
(***************************************************************************)
InitPatch ==
    /\ variant \in Variants
    /\ host_arch = "x86_64"
    /\ cur = 1
    /\ pc = "patch"
    /\ seed_exists = TRUE
    /\ arch = "-"
    /\ kernel_arch = "-"
    /\ cross_compile_prefix = "-"
    /\ log = << >>
    /\ build_tree = {"busybox", "busybox/.config"}
    /\ mount_point = "absent"
    /\ copy_status = "-"
    /\ outcome = [c \in 1..NumConfigs |-> IF c = 1 THEN "running" ELSE "pending"]
    /\ du = NoDu
    /\ dir = NoListing
    /\ base_size = 0
    /\ size_mb = 0
    /\ dd_count = 0
    /\ config_content \in Texts(MaxTextLen)
    /\ patch_runs = 0
    /\ config_name = NoNames
    /\ mount_path = NoPaths
    /\ NoLookup

\* busybox.rs 88-114 (main.rs 291-315): read .config, patch it, write it back
ApplyPatch ==
    /\ pc = "patch"
    /\ patch_runs < MaxPatchRuns
    /\ config_content' = FinalConfig(config_content, variant)
    /\ patch_runs' = patch_runs + 1
    /\ UNCHANGED << configVars, toolVars, sizeVars, pc, log, build_tree,
                    mount_point, copy_status, outcome >>

NextPatch == ApplyPatch

PatchSpec == InitPatch /\ [][NextPatch]_vars

(***************************************************************************)
(* The image sizing on its own: create_rootfs_image entered with every     *)
(* result of du up to MaxBase MB and every listing of up to MaxFiles       *)
(* entries, up to the allocation.                                          *)
(***************************************************************************)
InitSize ==
    /\ variant \in Variants
    /\ host_arch = "x86_64"
    /\ cur = 1
    /\ pc = "image_size"
    /\ seed_exists = TRUE
    /\ arch = "-"
    /\ kernel_arch = "-"
    /\ cross_compile_prefix = "-"
    /\ log = << >>
    /\ build_tree = {"rootfs"}
    /\ mount_point = "absent"
    /\ copy_status = "-"
    /\ outcome = [c \in 1..NumConfigs |-> IF c = 1 THEN "running" ELSE "pending"]
    /\ du = NoDu
    /\ dir = NoListing
    /\ base_size = 0
    /\ size_mb = 0
    /\ dd_count = 0
    /\ config_content = << >>
    /\ patch_runs = 0
    /\ config_name = NoNames
    /\ mount_path = NoPaths
    /\ NoLookup

NextSize ==
    \/ ImageSize(DuResults(MaxBase), DirListings(MaxFiles))
    \/ AllocateImage

SizeSpec == InitSize /\ [][NextSize]_vars

(***************************************************************************)
(* The toolchain resolution on its own: every target architecture on every *)
(* host string, with either outcome of the cross-compiler probe, followed  *)
(* by the kernel make that receives ARCH and CROSS_COMPILE.                *)
(***************************************************************************)
InitToolchain ==
    /\ variant \in Variants
    /\ host_arch \in Hosts
    /\ cur = 1
    /\ pc = "resolve_toolchain"
    /\ seed_exists = TRUE
    /\ arch \in Archs
    /\ kernel_arch = "-"
    /\ cross_compile_prefix = "-"
    /\ log = << >>
    /\ build_tree = {"linux", "linux/.config"}
    /\ mount_point = "absent"
    /\ copy_status = "-"
    /\ outcome = [c \in 1..NumConfigs |-> IF c = 1 THEN "running" ELSE "pending"]
    /\ du = NoDu
    /\ dir = NoListing
    /\ base_size = 0
    /\ size_mb = 0
    /\ dd_count = 0
    /\ config_content = << >>
    /\ patch_runs = 0
    /\ config_name = NoNames
    /\ mount_path = NoPaths
    /\ NoLookup

NextToolchain ==
    \/ ResolveToolchain
    \/ KernelMake

ToolchainSpec == InitToolchain /\ [][NextToolchain]_vars

(***************************************************************************)
(* Two assemblies started with any two configuration names, each deriving  *)
(* its mount point and mounting on it, in any interleaving.                *)
(***************************************************************************)
InitMounts ==
    /\ variant = "modules"
    /\ host_arch = "x86_64"
    /\ cur = 1
    /\ pc = "mount"
    /\ seed_exists = TRUE
    /\ arch = "-"
    /\ kernel_arch = "-"
    /\ cross_compile_prefix = "-"
    /\ log = << >>
    /\ build_tree = {"rootfs", "rootfs.img"}
    /\ mount_point = "absent"
    /\ copy_status = "-"
    /\ outcome = [c \in 1..NumConfigs |-> IF c = 1 THEN "running" ELSE "pending"]
    /\ du = NoDu
    /\ dir = NoListing
    /\ base_size = 0
    /\ size_mb = 0
    /\ dd_count = 0
    /\ config_content = << >>
    /\ patch_runs = 0
    /\ config_name \in [Assemblies -> Names]
    /\ mount_path = NoPaths
    /\ NoLookup

\* rootfs.rs 269-271: an assembly derives its mount point and creates it
DeriveMountPoint(a) ==
    /\ pc = "mount"
    /\ mount_path[a] = << >>
    /\ mount_path' = [mount_path EXCEPT ![a] = mount_point_path(config_name[a])]
    /\ UNCHANGED << variant, host_arch, cur, pc, seed_exists, arch, config_name,
                    lookupVars, toolVars, sizeVars, patchVars, log, build_tree, mount_point,
                    copy_status, outcome >>

NextMounts == \E a \in Assemblies : DeriveMountPoint(a)

MountsSpec == InitMounts /\ [][NextMounts]_vars

(***************************************************************************)
(* A config directory with any architecture directory and any file in it;  *)
(* the names are listed, then one name (a listed one or any other) is      *)
(* validated and parsed.                                                   *)
(***************************************************************************)
InitLookup ==
    /\ variant = "modules"
    /\ host_arch = "x86_64"
    /\ cur = 1
    /\ pc = "list"
    /\ seed_exists = TRUE
    /\ arch = "-"
    /\ kernel_arch = "-"
    /\ cross_compile_prefix = "-"
    /\ log = << >>
    /\ build_tree = {}
    /\ mount_point = "absent"
    /\ copy_status = "-"
    /\ outcome = [c \in 1..NumConfigs |-> "pending"]
    /\ du = NoDu
    /\ dir = NoListing
    /\ base_size = 0
    /\ size_mb = 0
    /\ dd_count = 0
    /\ config_content = << >>
    /\ patch_runs = 0
    /\ config_name = NoNames
    /\ mount_path = NoPaths
    /\ config_tree \in [arch_dir : EntryNames, file : EntryNames]
    /\ listed = << >>
    /\ asked = << >>
    /\ valid = FALSE
    /\ parsed = << >>

otherVars == << variant, host_arch, cur, seed_exists, arch, config_name, mount_path,
                toolVars, sizeVars, patchVars, log, build_tree, mount_point,
                copy_status, outcome >>

\* config.rs 19-62: the list subcommand
ListConfigs ==
    /\ pc = "list"
    /\ listed' = list_configs(config_tree)
    /\ pc' = "validate"
    /\ UNCHANGED << config_tree, asked, valid, parsed, otherVars >>

\* config.rs 5-16: a name from the command line is validated
ValidateConfig ==
    /\ pc = "validate"
    /\ \E name \in Names \cup {listed[i] : i \in 1..Len(listed)} :
          /\ asked' = name
          /\ valid' = is_valid_config(name, config_tree)
    /\ pc' = "parse"
    /\ UNCHANGED << config_tree, listed, parsed, otherVars >>

\* kernel.rs 9: build_linux_for_config parses the name
ParseConfigName ==
    /\ pc = "parse"
    /\ parsed' = parse_config_name(asked)
    /\ pc' = "parsed"
    /\ UNCHANGED << config_tree, listed, asked, valid, otherVars >>

NextLookup == ListConfigs \/ ValidateConfig \/ ParseConfigName

LookupSpec == InitLookup /\ [][NextLookup]_vars


(***************************************************************************)
(* The pipeline of one configuration, the last one of the loop of main,    *)
(* with every step that is enabled eventually taken: every external        *)
(* command the pipeline waits for eventually exits.                        *)
(***************************************************************************)
InitOne ==
    /\ variant \in Variants
    /\ host_arch \in PipelineHosts
    /\ cur = NumConfigs - 1
    /\ pc = "main_loop"
    /\ seed_exists = FALSE
    /\ arch = "-"
    /\ kernel_arch = "-"
    /\ cross_compile_prefix = "-"
    /\ log = << >>
    /\ build_tree = {}
    /\ mount_point = "absent"
    /\ copy_status = "-"
    /\ outcome = [c \in 1..NumConfigs |-> IF c < NumConfigs THEN "success" ELSE "pending"]
    /\ du = NoDu
    /\ dir = NoListing
    /\ base_size = 0
    /\ size_mb = 0
    /\ dd_count = 0
    /\ config_content = << >>
    /\ patch_runs = 0
    /\ config_name = NoNames
    /\ mount_path = NoPaths
    /\ NoLookup

OneSpec == InitOne /\ [][Next]_vars /\ WF_vars(Next)

(***************************************************************************)
(* Properties.                                                             *)
(***************************************************************************)
\* the pipeline function of the current configuration has been left
Left == pc \in {"return", "panicked"}

FailedAt(l, steps) == \E i \in 1..Len(l) : l[i].step \in steps /\ l[i].res # "ok"

\* C1: in create_rootfs_image, once the loop mount has exited successfully,
\* exactly one unmount attempt is made before the function is left, whatever the
\* copy and the ownership fix do (exit zero, exit non-zero, failure to launch).
C1_OneUnmountPerMount ==
    (Left /\ "ok" \in Result(log, "mount")) => Count(log, "umount") = 1

\* C2: if busybox configure or compile exits non-zero, no step of the rootfs
\* assembly (staging-tree deletion, busybox install, module install, dd, mkfs,
\* mount) is executed afterwards for that configuration.
C2_BusyboxFailureStopsPipeline ==
    \A i \in 1..Len(log) :
        (log[i].step \in {"busybox_defconfig", "busybox_make"} /\ log[i].res = "fail")
        => \A j \in (i + 1)..Len(log) :
              log[j].step \notin {"staging_clean", "busybox_install",
                                  "modules_install", "dd", "mkfs", "mount"}

\* C3: a failure of a step of one configuration never keeps the following
\* configurations from being processed: when the process has stopped, every
\* configuration has been processed.
C3_FailureDoesNotStopOthers ==
    pc \in {"exit", "panicked"} => \A c \in 1..NumConfigs : outcome[c] # "pending"

\* C4: in no run of a configuration in which a fatal step failed (kernel build,
\* busybox configure, compile or install, image allocation, format, mount, copy)
\* is "Rootfs image created successfully" reported.
C4_NoSuccessAfterFatalFailure ==
    FailedAt(log, {"kernel_make", "busybox_defconfig", "busybox_make",
                   "busybox_install", "dd", "mkfs", "mount", "copy"})
    => "report_success" \notin Steps(log)

\* C5: if the kernel make exits non-zero, build_linux_for_config stops for that
\* configuration: the kernel image is not copied to the output directory and
\* neither the busybox build nor the rootfs assembly is started.
C5_KernelFailureStops ==
    "fail" \in Result(log, "kernel_make")
    => /\ pc \in {"return", "main_loop", "exit"}
       /\ log[Len(log)].step = "kernel_make"
       /\ Steps(log) \cap ({"copy_kernel_image", "busybox_present", "git_clone_busybox"}
                           \cup BusyboxSteps \cup RootfsSteps) = {}
       /\ "Image" \notin build_tree /\ "bzImage" \notin build_tree

C5_Witness ==
    /\ variant = "modules"
    /\ pc = "return"
    /\ "fail" \in Result(log, "kernel_make")

\* C6: if the seed config of the configuration does not exist,
\* build_linux_for_config reports it and returns, creating or changing nothing
\* under build/<configuration> and launching no external command.
C6_MissingSeedTouchesNothing ==
    [][(pc = "build_linux" /\ ~seed_exists)
        => /\ pc' = "return"
           /\ log' = << Ev("config_not_found", "-") >>
           /\ build_tree' = build_tree
           /\ mount_point' = mount_point]_vars

C6_Witness ==
    /\ variant = "modules"
    /\ pc = "return"
    /\ ~seed_exists
    /\ log = << Ev("config_not_found", "-") >>
    /\ build_tree = StaleTree

\* C7: the busybox .config patch is idempotent: applying it a second time leaves
\* the file exactly as the first application wrote it.
C7_PatchIdempotent ==
    [][(pc = "patch" /\ variant = "modules" /\ patch_runs = 1)
        => config_content' = config_content]_vars

\* C8: after the patch the file holds a line that is the marker CONFIG_STATIC=y,
\* whatever the input text was.
C8_StaticEnabledLine ==
    (pc = "patch" /\ variant = "modules" /\ patch_runs >= 1)
    => \E i \in 1..Len(Lines(config_content)) :
          Lines(config_content)[i] = << STATIC_ON >>

\* the least n with n >= base * 1.3
CeilOfScaled(base) ==
    CHOOSE n \in 0..(2 * base + 1) :
        /\ n * MarginDen >= base * MarginNum
        /\ (n - 1) * MarginDen < base * MarginNum

\* C9: in create_rootfs_image the size in MB passed to the allocation is, for
\* every base returned by calculate_rootfs_size (0 included), at least base + 200
\* and at least base * 1.3, and is the larger of base + 200 and ceil(base * 1.3).
C9_ImageSizeMargins ==
    (variant = "modules" /\ "dd" \in Steps(log))
    => /\ base_size = calculate_rootfs_size(du, dir)
       /\ dd_count >= base_size + 200
       /\ dd_count * 10 >= base_size * 13
       /\ dd_count = IF base_size + 200 >= CeilOfScaled(base_size)
                     THEN base_size + 200
                     ELSE CeilOfScaled(base_size)

\* an allocation whose size came from the multiplicative margin
C9_Witness ==
    /\ variant = "modules"
    /\ Result(log, "dd") = {"ok"}
    /\ base_size > 0
    /\ dd_count > base_size + 200

\* C10: the image of the build subcommand's pipeline in main.rs is allocated with
\* a size in MB of at least staging size + 200 and at least staging size * 1.3.
C10_MainImageSizeMargins ==
    (variant = "main" /\ "dd" \in Steps(log))
    => /\ dd_count >= base_size + 200
       /\ dd_count * 10 >= base_size * 13

\* the toolchain has been resolved for the current configuration
Resolved == kernel_arch # "-"
X86FamilyHost == {"x86_64", "x86_64h", "i686"}
ProbeFailed == "not_found" \in Result(log, "which_cross_gcc")

\* C11: get_arch_config maps target x86 to kernel architecture x86_64 with no
\* prefix when the host starts with "x86_64" or is "i686"; it maps target arm64
\* to kernel architecture arm64, with no prefix exactly when the host is
\* "aarch64" and with the prefix aarch64-linux-gnu- otherwise, whatever the
\* probe for the cross compiler reports.
C11_ArchMapping ==
    Resolved =>
        /\ (arch = "x86" /\ host_arch \in X86FamilyHost)
              => (kernel_arch = "x86_64" /\ cross_compile_prefix = NoPrefix)
        /\ arch = "arm64"
              => /\ kernel_arch = "arm64"
                 /\ (cross_compile_prefix = NoPrefix) <=> (host_arch = "aarch64")
                 /\ host_arch # "aarch64" => cross_compile_prefix = "aarch64-linux-gnu-"

C11_Witness ==
    /\ Resolved /\ arch = "arm64" /\ host_arch = "aarch64_be" /\ ProbeFailed
    /\ cross_compile_prefix = "aarch64-linux-gnu-"
    /\ "kernel_make" \in Steps(log)

\* the fixed cross-compile prefix of a target architecture
FixedPrefix(target_arch) ==
    IF target_arch = "arm64" THEN "aarch64-linux-gnu-" ELSE "x86_64-linux-gnu-"

\* C12 as stated: every target that needs cross-compilation on the host (arm64
\* on a host other than aarch64, x86 on a host outside the x86 family) gets its
\* fixed cross-compile prefix even when the probe for the cross compiler fails.
C12_PrefixDespiteFailedProbe ==
    (Resolved /\ arch \in {"arm64", "x86"} /\ ProbeMade(arch, host_arch))
        => cross_compile_prefix = FixedPrefix(arch)

\* C12 amended: arm64 on a host other than aarch64 gets aarch64-linux-gnu- even
\* when the probe fails; x86 on a host outside the x86 family gets
\* x86_64-linux-gnu- only when the probe succeeds, and no prefix (native
\* compilation, after a warning) when the probe fails.
C12_PrefixPerTarget ==
    (Resolved /\ ProbeMade(arch, host_arch)) =>
        /\ arch = "arm64" => cross_compile_prefix = "aarch64-linux-gnu-"
        /\ arch = "x86" =>
              cross_compile_prefix =
                  (IF ProbeFailed THEN NoPrefix ELSE "x86_64-linux-gnu-")

C12_Witness ==
    /\ Resolved /\ arch = "x86" /\ host_arch = "aarch64" /\ ProbeFailed
    /\ cross_compile_prefix = NoPrefix
    /\ \E i \in 1..Len(log) : log[i].step = "kernel_make" /\ log[i].cross = NoPrefix

\* image allocation, format, mount and copy have all exited with status zero
ImageStepsOk ==
    \A st \in {"dd", "mkfs", "mount", "copy"} : Result(log, st) = {"ok"}

LastStep == IF log = << >> THEN "-" ELSE log[Len(log)].step

\* C13: when modules_install exits non-zero the rootfs assembly continues: the
\* init script is written next, the image allocation is reached on every normal
\* return, and once the function is left with allocation, format, mount and
\* copy all successful the run has reported success.
C13_ModulesFailureNonFatal ==
    "fail" \in Result(log, "modules_install") =>
        /\ LastStep = "modules_install" => pc = "init_script"
        /\ pc = "return" => {"init_script", "dd"} \subseteq Steps(log)
        /\ (Left /\ ImageStepsOk) => "report_success" \in Steps(log)

\* C14: create_rootfs_image reports success if and only if allocation, format,
\* mount and copy all exited successfully; a non-zero ownership fix leaves a
\* success report in place, and a failed copy is reported as a failure after
\* the unmount has been attempted.
C14_SuccessIffImageStepsOk ==
    (Left /\ "dd" \in Steps(log)) =>
        /\ ("report_success" \in Steps(log)) <=> ImageStepsOk
        /\ (ImageStepsOk /\ "fail" \in Result(log, "chown"))
              => "report_success" \in Steps(log)
        /\ (Result(log, "copy") \cap {"fail", "noexec"} # {})
              => /\ "report_copy_failed" \in Steps(log)
                 /\ "umount" \in Steps(log)


\* C15: when dd or mkfs.ext4 exits non-zero, create_rootfs_image returns with no
\* mount point created and no mount, copy, ownership fix or unmount attempted;
\* after a failed dd, mkfs.ext4 is not attempted either.
C15_AllocOrFormatFailureStops ==
    ("fail" \in Result(log, "dd") \cup Result(log, "mkfs")) =>
        /\ pc \in {"return", "main_loop", "exit"}
        /\ mount_point = "absent"
        /\ Steps(log) \cap {"mount_mkdir", "mount", "copy", "chown", "umount",
                            "remove_mount_point"} = {}
        /\ "fail" \in Result(log, "dd") => "mkfs" \notin Steps(log)

C15_Witness ==
    /\ pc = "return"
    /\ Result(log, "dd") = {"ok"}
    /\ "fail" \in Result(log, "mkfs")

\* C16: when the loop mount exits non-zero, create_rootfs_image attempts no
\* copy, no ownership fix and no unmount, and does not report success.
C16_MountFailureStops ==
    "fail" \in Result(log, "mount") =>
        /\ pc \in {"return", "main_loop", "exit"}
        /\ Steps(log) \cap {"copy", "chown", "umount", "report_success"} = {}
        /\ outcome[cur] # "success"

C16_Witness ==
    /\ pc = "return"
    /\ "fail" \in Result(log, "mount")
    /\ Result(log, "mkfs") = {"ok"}


\* the staging tree build/<configuration>/rootfs and what it holds
StagingTree(tree) == tree \cap (StagingPaths \cup {"rootfs"})

\* C17: when the busybox install target is about to be invoked the staging tree
\* exists and is empty, whatever build/<configuration> held before; and once
\* the install has run no step of the same assembly removes the staging tree
\* or anything in it, whether the steps succeed or fail.
C17_StagingFreshThenKept ==
    /\ [](pc = "busybox_install" => StagingTree(build_tree) = {"rootfs"})
    /\ [][("busybox_install" \in Steps(log) /\ "busybox_install" \in Steps(log'))
            => StagingTree(build_tree) \subseteq StagingTree(build_tree')]_vars

C17_Witness ==
    /\ pc = "return"
    /\ "report_copy_failed" \in Steps(log)
    /\ {"rootfs", "rootfs/bin", "rootfs/init"} \subseteq build_tree
    /\ "rootfs/stale" \notin build_tree
    /\ "busybox" \in build_tree


\* C18: after a successful kernel build, when the kernel image is not at its
\* per-architecture path copy_kernel_image only reports it: nothing is copied,
\* the configuration is not marked failed, and the pipeline goes on into the
\* busybox build and from there into the rootfs assembly.
C18_MissingImageOnlyWarns ==
    /\ []("not_found" \in Result(log, "copy_kernel_image")
            => /\ Result(log, "kernel_make") = {"ok"}
               /\ kernel_target(arch) \notin build_tree
               /\ LastStep = "copy_kernel_image"
                    => (pc = "download_busybox" /\ outcome[cur] = "running")
               /\ pc \in {"return", "main_loop", "exit"}
                    => Steps(log) \cap {"staging_clean", "busybox_install"} # {})
    /\ [][(LastStep = "copy_kernel_image" /\ log[Len(log)].res = "not_found")
            => Steps(log') \cap {"busybox_present", "git_clone_busybox"} # {}]_vars

C18_Witness ==
    /\ "not_found" \in Result(log, "copy_kernel_image")
    /\ "report_success" \in Steps(log)
    /\ pc = "return"


\* C19: the mount point of an assembly is /tmp/rootfs_mount_<configuration>, a
\* function of its configuration name only, and the function is injective: two
\* assemblies with different configuration names, running side by side, never
\* hold the same mount path.
C19_MountPathInjective ==
    \A a, b \in Assemblies :
        /\ mount_path[a] # << >>
              => mount_path[a] = << "/tmp", "/", "rootfs_mount_" >> \o config_name[a]
        /\ (mount_path[a] # << >> /\ mount_path[b] # << >>
                /\ config_name[a] # config_name[b])
              => mount_path[a] # mount_path[b]

C19_Witness ==
    /\ mount_path["first"] # << >> /\ mount_path["second"] # << >>
    /\ config_name["first"] = << "a", "-", "a" >>
    /\ config_name["second"] = << "a", "-", "_" >>


\* the steps of the rootfs assembly in the order of the text of
\* create_rootfs_for_config and create_rootfs_image
AssemblyOrder ==
    << "busybox_install", "scaffold", "modules_install", "init_script", "image_size",
       "dd", "mkfs", "mount", "copy", "chown", "umount" >>
AssemblySteps ==
    {"busybox_install", "scaffold", "modules_install", "init_script", "image_size",
     "dd", "mkfs", "mount", "copy", "chown", "umount"}
\* position of a step in AssemblyOrder
Rank(step) ==
    [busybox_install |-> 1, scaffold |-> 2, modules_install |-> 3, init_script |-> 4,
     image_size |-> 5, dd |-> 6, mkfs |-> 7, mount |-> 8, copy |-> 9, chown |-> 10,
     umount |-> 11][step]
\* the steps whose non-zero exit makes the assembly return
FatalSteps == {"busybox_install", "dd", "mkfs", "mount"}

C21_InstallFailureStops ==
    "fail" \in Result(log, "busybox_install") =>
        /\ pc \in {"return", "main_loop", "exit"}
        /\ LastStep = "busybox_install"
        /\ build_tree \cap {"rootfs/bin", "rootfs/dirs", "rootfs/lib/modules",
                             "rootfs/init", "rootfs/boot", "rootfs.img"} = {}
        /\ mount_point = "absent"
        /\ outcome[cur] = "failed"

C21_Witness ==
    /\ pc = "return"
    /\ "fail" \in Result(log, "busybox_install")
    /\ "rootfs" \in build_tree


\* the log without its last entry
Earlier == IF log = << >> THEN << >> ELSE SubSeq(log, 1, Len(log) - 1)

\* C22: the busybox build runs configure, patch, compile in this order: the
\* .config file is rewritten only after a configure that exited zero, the
\* compile is started only after the patched file has been written, no step
\* runs twice, and after a configure that exited non-zero neither the patch nor
\* the compile happens.  The log only grows at its end, so the conditions on
\* its last entry, in every state, are conditions on every step of every run.
C22_BusyboxBuildOrder ==
    /\ LastStep = "busybox_defconfig"
          => Steps(Earlier) \cap {"busybox_defconfig", "busybox_patch", "busybox_make"} = {}
    /\ LastStep = "busybox_patch"
          => /\ Result(Earlier, "busybox_defconfig") = {"ok"}
             /\ Steps(Earlier) \cap {"busybox_patch", "busybox_make"} = {}
    /\ LastStep = "busybox_make"
          => /\ Result(Earlier, "busybox_defconfig") = {"ok"}
             /\ Result(Earlier, "busybox_patch") = {"ok"}
             /\ "busybox_make" \notin Steps(Earlier)
             /\ patch_runs = 1
    /\ patch_runs > 0 => Result(log, "busybox_defconfig") = {"ok"}
    /\ "fail" \in Result(log, "busybox_defconfig")
          => /\ Steps(log) \cap {"busybox_patch", "busybox_make"} = {}
             /\ patch_runs = 0

C22_Witness ==
    /\ pc = "create_rootfs"
    /\ Result(log, "busybox_make") = {"fail"}
    /\ Result(log, "busybox_patch") = {"ok"}
    /\ patch_runs = 1


\* a line beginning with one of the three markers the patch rewrites
Recognised(line) ==
    \/ StartsWith(line, STATIC_OFF)
    \/ StartsWith(line, SHARED_ON)
    \/ StartsWith(line, TC_ON)

\* C23: the patch changes no line other than the lines beginning with one of
\* the three recognised markers: the output has the lines of the input, each
\* unrecognised one unchanged and at its place, each recognised one replaced
\* by one line at its place, and at most one more line, CONFIG_STATIC=y, at
\* the end.
C23_PatchFrame ==
    [][patch_runs' = patch_runs + 1 =>
          LET in == Lines(config_content)
              out == Lines(config_content')
          IN  /\ Len(out) \in {Len(in), Len(in) + 1}
              /\ \A i \in 1..Len(in) : ~Recognised(in[i]) => out[i] = in[i]
              /\ Len(out) = Len(in) + 1 => out[Len(out)] = << STATIC_ON >>]_vars


\* C24: for every input text, the file written by the patch of busybox.rs has
\* no line beginning with "# CONFIG_STATIC is not set", none beginning with
\* "CONFIG_FEATURE_SHARED_BUSYBOX=y" and none beginning with "CONFIG_TC=y".
C24_NoRecognisedLineLeft ==
    (variant = "modules" /\ patch_runs > 0) =>
        \A i \in 1..Len(Lines(config_content)) : ~Recognised(Lines(config_content)[i])

C24_Witness ==
    /\ variant = "modules"
    /\ patch_runs = 1
    /\ config_content = << TC_OFF, NL, SHARED_OFF, NL, STATIC_ON, NL >>


\* the steps that invoke make
MakeSteps ==
    {"kernel_make", "busybox_defconfig", "busybox_make", "busybox_install",
     "modules_install"}

\* C25: in the run for one configuration the toolchain is resolved once (one
\* uname, at most one probe), every make invocation of the run is given the
\* resolved cross-compile prefix, or none when none was resolved, and the
\* kernel build and modules_install are given the resolved kernel architecture.
C25_OneToolchainProfile ==
    /\ Count(log, "uname") <= 1
    /\ Count(log, "which_cross_gcc") <= 1
    /\ \A i \in 1..Len(log) :
          /\ log[i].step \in MakeSteps
                => (Resolved /\ log[i].cross = cross_compile_prefix)
          /\ log[i].step \in {"kernel_make", "modules_install"}
                => log[i].arch = kernel_arch

C25_Witness ==
    /\ "report_success" \in Steps(log)
    /\ "fail" \in Result(log, "busybox_make")
    /\ cross_compile_prefix = "aarch64-linux-gnu-"
    /\ kernel_arch = "arm64"
    /\ \E i \in 1..Len(log) :
          log[i].step = "modules_install" /\ log[i].cross = "aarch64-linux-gnu-"


\* the steps the specification calls fatal for a configuration when they exit
\* non-zero
SpecFatalSteps ==
    {"kernel_make", "busybox_defconfig", "busybox_make", "busybox_install",
     "dd", "mkfs", "mount"}

\* the run of the configuration has ended after the final report of the rootfs
\* assembly, or at the first fatal step
EndedAtReportOrFirstFatal ==
    \/ Steps(log) \cap {"report_success", "report_copy_failed"} # {}
    \/ LastStep = "config_not_found"
    \/ /\ log # << >>
       /\ log[Len(log)].res \notin {"ok", "done"}
       /\ ~FailedAt(Earlier, SpecFatalSteps)

NoStepTwice == \A i \in 1..Len(log) : Count(log, log[i].step) = 1

\* C26: when every external command eventually exits, the pipeline of a
\* configuration eventually terminates; it ends either after the final report
\* of the rootfs assembly or at the first fatal step; and it launches no step
\* a second time.
C26_TerminatesWithoutRetry ==
    /\ (pc = "build_linux") ~> Left
    /\ [](Left => EndedAtReportOrFirstFatal)
    /\ []NoStepTwice


\* bytes of all the files of the staging tree, as far as metadata can be read
TreeBytes(d) == SumSizes(d.sizes) + d.below

\* C27: when du is unavailable, fails or prints an unparsable result,
\* calculate_rootfs_size returns the sum of the file sizes of the staging tree
\* in whole MB, and never 0: it returns 50 when the tree is unreadable, empty
\* or sums to less than 1 MB.
C27_FallbackIsTreeSize ==
    (variant = "modules" /\ "image_size" \in Steps(log) /\ UsesFallback(variant, du))
        => /\ base_size # 0
           /\ base_size = IF ~dir.readable \/ TreeBytes(dir) < MiB
                          THEN DefaultSizeMB
                          ELSE TreeBytes(dir) \div MiB


\* position of the first entry of the log for a step, 0 when it was never run
Position(step) ==
    IF step \in Steps(log)
    THEN CHOOSE i \in 1..Len(log) :
             log[i].step = step /\ \A j \in 1..(i - 1) : log[j].step # step
    ELSE 0

\* C28: whenever create_rootfs_image has created the mount-point directory, it
\* attempts to remove that directory before it returns, on every return path
\* (mount failed, copy failed, ownership fix failed, all succeeded); after a
\* successful mount the removal is attempted only after the unmount attempt.
C28_MountPointRemovedOnReturn ==
    (pc = "return" /\ "mount" \in Steps(log))
        => /\ "remove_mount_point" \in Steps(log)
           /\ ("ok" \in Result(log, "mount"))
                 => (0 < Position("umount")
                        /\ Position("umount") < Position("remove_mount_point"))


\* the entry of the log before the last one
Previous == IF Len(log) < 2 THEN Ev("-", "-") ELSE log[Len(log) - 1]

\* C29: the ownership fix (chown -R root:root on the mount point) is attempted
\* if and only if the copy was launched and exited zero; after a failed copy
\* the next step is the unmount, without an ownership fix. The log only grows
\* at its end, so the condition on the step after the copy is stated where
\* that step is the newest entry.
C29_ChownIffCopyOk ==
    /\ LastStep = "chown" => (Previous.step = "copy" /\ Previous.res = "ok")
    /\ Previous.step = "copy"
          => LastStep = (IF Previous.res = "ok" THEN "chown" ELSE "umount")
    /\ (log # << >> /\ LastStep = "copy")
          => pc = (IF log[Len(log)].res = "ok" THEN "chown" ELSE "umount")

C29_Witness ==
    /\ "report_copy_failed" \in Steps(log)
    /\ Result(log, "copy") = {"fail"}
    /\ "chown" \notin Steps(log)
    /\ Position("copy") + 1 = Position("umount")


\* C30: for a target architecture other than "arm64" and "x86", get_arch_config
\* returns the tag unchanged as kernel architecture with no cross-compile
\* prefix and the kernel build uses the fallback target name bzImage; after a
\* successful kernel build for such an architecture the kernel image is copied
\* into build/<configuration>/ under that target name whenever the build
\* produced one (the copy itself may be refused by the file system).
C30_UnknownArchBuiltAndCopied ==
    (Resolved /\ arch \notin {"arm64", "x86"})
        => /\ kernel_arch = arch
           /\ cross_compile_prefix = NoPrefix
           /\ kernel_target(arch) = "bzImage"
           /\ (/\ LastStep = "copy_kernel_image"
               /\ "linux/arch/boot/image" \in build_tree
               /\ log[Len(log)].res # "mkdir_err")
                 => /\ log[Len(log)].res \in {"copied", "copy_err"}
                    /\ log[Len(log)].res = "copied" => "bzImage" \in build_tree


HasHyphen(name) == \E i \in 1..Len(name) : name[i] = "-"

\* C31: parse_config_name is the inverse of the naming used by list_configs:
\* for every architecture directory name a and config file name n,
\* parse_config_name(a + "-" + n) returns (a, n); is_valid_config accepts a
\* name exactly when the file config/<a>/<n> of that parsed pair exists; and a
\* name without any hyphen is rejected by is_valid_config.
C31_ParseInvertsListing ==
    pc = "parsed"
        => /\ asked = full_config_name(config_tree.arch_dir, config_tree.file)
                 => parsed = << config_tree.arch_dir, config_tree.file >>
           /\ valid <=> (/\ HasHyphen(asked)
                         /\ << ConfigDir, parsed[1], parsed[2] >> \in Files(config_tree))
           /\ ~HasHyphen(asked) => ~valid


====
